---- MODULE Spec2Model ----
(***************************************************************************)
(* A model of tap::reffed (src/src/reffed.rs): the two blanket-implemented *)
(* methods reffed::<U>() and ref_muted::<U>(), which delegate to the       *)
(* AsRef / AsMut conversion a type declares.                               *)
(*                                                                         *)
(* The program state is the memory the caller owns (two values, "v" and    *)
(* "w"), the read-only static memory, and the set of live references.  A   *)
(* reference is a place: the memory it points into, an offset and a        *)
(* length, viewed as a target type.  The conversions are those the Rust    *)
(* standard library declares for str, Vec<u8> and std::path::Component,    *)
(* plus one caller-declared type, Sink, that declares AsMut<[u8]> only.    *)
(***************************************************************************)
EXTENDS Integers, Sequences, FiniteSets, TLC

VARIABLES
    store,   \* value id -> [ty, tag, data]: the values the caller owns
    refs,    \* the live references: [val, mut, target, place]
    wrote,   \* the last write made through an exclusive reference
    obs      \* the first reffed call since the last write, and a later one like it

vars == <<store, refs, wrote, obs>>

\* Longest content (in bytes, or in characters for a str) of a value.
MaxLen == 2

\* The values the caller owns: "v" is any value, "w" a second one.
Vals == {"v", "w"}

\* Self types and target types.
Types == {"str", "Vec_u8", "Component", "Sink"}
Targets == {"str", "slice_u8", "Path", "Vec_u8"}

\* Bytes a buffer is filled from: "/", "h", "i", and the two bytes of U+00E9,
\* each of which alone is invalid UTF-8.
Bytes == {47, 104, 105, 195, 169}

\* Characters a text is written from: "/", "h", U+00E9 (2 bytes), U+20AC (3 bytes).
CodePoints == {47, 104, 233, 8364}

SeqsUpTo(S, n) == UNION {[1..k -> S] : k \in 0..n}

----------------------------------------------------------------------------
(* Text: str is UTF-8 bytes; Path::display() decodes them lossily.         *)

\* char::encode_utf8, for code points below 65536.
encode_utf8(c) ==
    IF c < 128 THEN <<c>>
    ELSE IF c < 2048 THEN <<192 + (c \div 64), 128 + (c % 64)>>
    ELSE <<224 + (c \div 4096), 128 + ((c \div 64) % 64), 128 + (c % 64)>>

\* The bytes of a text given as its characters.
RECURSIVE utf8_encode(_)
utf8_encode(cps) ==
    IF cps = <<>> THEN <<>>
    ELSE encode_utf8(Head(cps)) \o utf8_encode(Tail(cps))

IsCont(b) == b >= 128 /\ b <= 191

REPLACEMENT_CHARACTER == 65533

\* String::from_utf8_lossy for sequences of up to three bytes per character:
\* each maximal invalid part becomes one U+FFFD.
RECURSIVE from_utf8_lossy(_)
from_utf8_lossy(bs) ==
    IF bs = <<>> THEN <<>>
    ELSE LET b1 == bs[1]
             n  == Len(bs)
             rest(k) == SubSeq(bs, k + 1, n)
         IN  IF b1 < 128 THEN <<b1>> \o from_utf8_lossy(rest(1))
             ELSE IF b1 >= 194 /\ b1 <= 223
             THEN IF n >= 2 /\ IsCont(bs[2])
                  THEN <<(b1 - 192) * 64 + (bs[2] - 128)>> \o from_utf8_lossy(rest(2))
                  ELSE <<REPLACEMENT_CHARACTER>> \o from_utf8_lossy(rest(1))
             ELSE IF b1 >= 224 /\ b1 <= 239
             THEN IF n >= 2 /\ IsCont(bs[2])
                     /\ (b1 = 224 => bs[2] >= 160) /\ (b1 = 237 => bs[2] <= 159)
                  THEN IF n >= 3 /\ IsCont(bs[3])
                       THEN <<(b1 - 224) * 4096 + (bs[2] - 128) * 64 + (bs[3] - 128)>>
                            \o from_utf8_lossy(rest(3))
                       ELSE <<REPLACEMENT_CHARACTER>> \o from_utf8_lossy(rest(2))
                  ELSE <<REPLACEMENT_CHARACTER>> \o from_utf8_lossy(rest(1))
             ELSE <<REPLACEMENT_CHARACTER>> \o from_utf8_lossy(rest(1))

\* path.display().to_string(): the bytes of the String the lossy rendering gives.
display_to_string(bs) == utf8_encode(from_utf8_lossy(bs))

\* u8::to_ascii_uppercase / to_ascii_lowercase.
to_ascii_uppercase(b) == IF b >= 97 /\ b <= 122 THEN b - 32 ELSE b
to_ascii_lowercase(b) == IF b >= 65 /\ b <= 90 THEN b + 32 ELSE b

\* The in-place transforms a caller applies through an exclusive reference.
Transforms == {"make_ascii_uppercase", "make_ascii_lowercase"}

Apply(f, bs) ==
    [i \in 1..Len(bs) |->
        IF f = "make_ascii_uppercase" THEN to_ascii_uppercase(bs[i])
        ELSE to_ascii_lowercase(bs[i])]

----------------------------------------------------------------------------
(* Memory and places.                                                      *)

\* The read-only memory std::path::Component's unit variants render from.
StaticNames == {"RootDir", "CurDir", "ParentDir"}
Statics == [n \in StaticNames |->
              IF n = "RootDir" THEN <<47>>
              ELSE IF n = "CurDir" THEN <<46>>
              ELSE <<46, 46>>]

\* The bytes of a memory: a value's storage, or a static.
Mem(m) ==
    IF m \in Vals THEN store[m].data
    ELSE IF m \in StaticNames THEN Statics[m]
    ELSE <<>>

Place(m, lo, len) == [mem |-> m, lo |-> lo, len |-> len]

\* No reference at all.
NoPlace == Place("none", 0, 0)

\* A place that designates bytes that exist.
ValidPlace(p) ==
    /\ p.mem \in Vals \cup StaticNames
    /\ p.lo >= 1
    /\ p.len >= 0
    /\ p.lo + p.len - 1 <= Len(Mem(p.mem))

\* What is read through a reference to the place.
Content(p) == SubSeq(Mem(p.mem), p.lo, p.lo + p.len - 1)

\* The whole storage of value x.
Whole(x) == Place(x, 1, Len(store[x].data))

----------------------------------------------------------------------------
(* The conversions the types declare (std::convert::AsRef / AsMut).        *)

\* impl AsRef<U> for T: str, Vec<u8> and std::path::Component.
AsRefImpls ==
    { <<"str", "str">>, <<"str", "slice_u8">>, <<"str", "Path">>,
      <<"Vec_u8", "slice_u8">>, <<"Vec_u8", "Vec_u8">>,
      <<"Component", "Path">> }

\* impl AsMut<U> for T: str, Vec<u8>, and the caller's Sink.
AsMutImpls ==
    { <<"str", "str">>,
      <<"Vec_u8", "slice_u8">>, <<"Vec_u8", "Vec_u8">>,
      <<"Sink", "slice_u8">> }

\* <T as AsRef<U>>::as_ref(self): str and Vec<u8> present their own bytes;
\* a Component presents its name, which for the unit variants is a static.
as_ref(self, U) ==
    IF store[self].ty = "Component" /\ store[self].tag # "Normal"
    THEN Place(store[self].tag, 1, Len(Statics[store[self].tag]))
    ELSE Whole(self)

\* <T as AsMut<U>>::as_mut(self): the value's own bytes.
as_mut(self, U) == Whole(self)

----------------------------------------------------------------------------
(* src/src/reffed.rs                                                       *)

\* A bound that asks for both directions.
reffed_bound_both(T, U) == <<T, U>> \in AsRefImpls /\ <<T, U>> \in AsMutImpls

\* where T: AsRef<U>
reffed_bound(T, U) == <<T, U>> \in AsRefImpls

\* where T: AsMut<U>
ref_muted_bound(T, U) == <<T, U>> \in AsMutImpls

\* reffed delegating to the other conversion.
reffed_via_as_mut(self, U) == as_mut(self, U)

\* reffed dropping the last byte of the view.
reffed_truncating(self, U) ==
    LET p == as_ref(self, U)
    IN  IF p.len > 0 THEN Place(p.mem, p.lo, p.len - 1) ELSE p

\* reffed whose result moves on with every reference it has handed out.
reffed_advancing(self, U) ==
    LET p == as_ref(self, U)
        k == Cardinality({r \in refs : r.val = self})
    IN  IF k <= p.len THEN Place(p.mem, p.lo + k, p.len - k)
        ELSE Place(p.mem, p.lo + p.len, 0)

\* reffed answering from other storage that holds the same bytes.
reffed_elsewhere(self, U) ==
    LET p == as_ref(self, U)
        same == {x \in Vals \ {self} : store[x].data = Content(p)}
    IN  IF same # {} THEN Whole(CHOOSE x \in same : TRUE) ELSE p

\* reffed refusing an empty value.
reffed_validating(self, U) ==
    IF store[self].data = <<>> THEN NoPlace ELSE as_ref(self, U)

\* fn reffed<U>(&self) -> &U { self.as_ref() }
reffed(self, U) == as_ref(self, U)

\* ref_muted dropping the first byte of the view.
ref_muted_tail(self, U) ==
    LET p == as_mut(self, U)
    IN  IF p.len > 0 THEN Place(p.mem, p.lo + 1, p.len - 1) ELSE p

\* ref_muted dropping the last byte of the view.
ref_muted_head(self, U) ==
    LET p == as_mut(self, U)
    IN  IF p.len > 0 THEN Place(p.mem, p.lo, p.len - 1) ELSE p

\* fn ref_muted<U>(&mut self) -> &mut U { self.as_mut() }
ref_muted(self, U) == as_mut(self, U)

\* &self: a shared borrow of the value, refused while it is exclusively borrowed.
shared_borrow_ok(self) == \A r \in refs : r.val = self => ~r.mut

\* A receiver that borrows as &self does.
exclusive_borrow_shared(self) == \A r \in refs : r.val = self => ~r.mut

\* &mut self: an exclusive borrow of the value, refused while it is borrowed.
exclusive_borrow_ok(self) == \A r \in refs : r.val # self

Ref(x, m, U, p) == [val |-> x, mut |-> m, target |-> U, place |-> p]

NoObs == [val |-> "none", target |-> "none", place |-> NoPlace,
          first |-> <<>>, second |-> <<>>, n |-> 0]

NoWrite == [val |-> "none", target |-> "none", place |-> NoPlace,
            before |-> <<>>, f |-> "none"]

\* The caller's record of what reffed calls showed: the first call since the
\* last write, and the latest later call on the same value and target.
Observe(self, U, p) ==
    IF obs.n = 0
    THEN [val |-> self, target |-> U, place |-> p,
          first |-> Content(p), second |-> <<>>, n |-> 1]
    ELSE IF obs.val = self /\ obs.target = U
    THEN [obs EXCEPT !.second = Content(p), !.n = 2]
    ELSE obs

\* reffed putting the value into upper case before presenting it.
ReffedNormalising(self, U) ==
    /\ reffed_bound(store[self].ty, U)
    /\ shared_borrow_ok(self)
    /\ refs' = refs \cup {Ref(self, FALSE, U, reffed(self, U))}
    /\ obs' = Observe(self, U, reffed(self, U))
    /\ store' = [store EXCEPT ![self].data = Apply("make_ascii_uppercase", @)]
    /\ UNCHANGED wrote

\* v.reffed::<U>()
Reffed(self, U) ==
    /\ reffed_bound(store[self].ty, U)
    /\ shared_borrow_ok(self)
    /\ refs' = refs \cup {Ref(self, FALSE, U, reffed(self, U))}
    /\ obs' = Observe(self, U, reffed(self, U))
    /\ UNCHANGED <<store, wrote>>

\* v.ref_muted::<U>()
RefMuted(self, U) ==
    /\ ref_muted_bound(store[self].ty, U)
    /\ exclusive_borrow_ok(self)
    /\ refs' = refs \cup {Ref(self, TRUE, U, ref_muted(self, U))}
    /\ UNCHANGED <<store, wrote, obs>>

\* The bytes bs with those of place p replaced by new.
Splice(bs, p, new) ==
    [i \in 1..Len(bs) |->
        IF i >= p.lo /\ i < p.lo + p.len THEN new[i - p.lo + 1] ELSE bs[i]]

\* r.make_ascii_uppercase() and the like, through the exclusive reference r.
Write(r, f) ==
    /\ r \in refs
    /\ r.mut
    /\ r.place.mem \in Vals
    /\ store' = [store EXCEPT ![r.place.mem].data =
                    Splice(@, r.place, Apply(f, Content(r.place)))]
    /\ wrote' = [val |-> r.val, target |-> r.target, place |-> r.place,
                 before |-> store[r.val].data, f |-> f]
    /\ obs' = IF obs.val = r.place.mem THEN NoObs ELSE obs
    /\ UNCHANGED refs

\* The end of a reference's life.
Release(r) ==
    /\ r \in refs
    /\ refs' = refs \ {r}
    /\ UNCHANGED <<store, wrote, obs>>

----------------------------------------------------------------------------

\* "/some/sort/of/path"
DocPath == <<47, 115, 111, 109, 101, 47, 115, 111, 114, 116,
             47, 111, 102, 47, 112, 97, 116, 104>>

Value(ty, tag, data) == [ty |-> ty, tag |-> tag, data |-> data]

\* A Component::Normal holds a name: not empty, no separator.
Names == {bs \in SeqsUpTo(Bytes, MaxLen) : bs # <<>> /\ \A i \in 1..Len(bs) : bs[i] # 47}

AnyValue ==
    {Value("str", "", utf8_encode(cps)) : cps \in SeqsUpTo(CodePoints, MaxLen)}
    \cup {Value("str", "", DocPath)}
    \cup {Value("Vec_u8", "", bs) : bs \in SeqsUpTo(Bytes, MaxLen)}
    \cup {Value("Sink", "", bs) : bs \in SeqsUpTo(Bytes, MaxLen)}
    \cup {Value("Component", t, <<>>) : t \in StaticNames}
    \cup {Value("Component", "Normal", bs) : bs \in Names}

\* The second value: a Sink over the byte "h".
SecondValue == {Value("Sink", "", <<104>>)}

Init ==
    /\ store \in [Vals -> AnyValue]
    /\ store["w"] \in SecondValue
    /\ refs = {}
    /\ wrote = NoWrite
    /\ obs = NoObs

Next ==
    \/ \E self \in Vals, U \in Targets : Reffed(self, U)
    \/ \E self \in Vals, U \in Targets : RefMuted(self, U)
    \/ \E r \in refs, f \in Transforms : Write(r, f)
    \/ \E r \in refs : Release(r)

Spec == Init /\ [][Next]_vars

----------------------------------------------------------------------------
(* The claims.                                                             *)

\* The conversion the type declares for the direction of reference r.
Declared(r) ==
    IF r.mut THEN as_mut(r.val, r.target) ELSE as_ref(r.val, r.target)

\* C1: what is read through the reference v.reffed::<U>() returned equals
\* what is read through v.as_ref(), for every value and every declared target.
C1_ReffedContentIsAsRef ==
    \A r \in refs :
        ~r.mut => Content(r.place) = Content(as_ref(r.val, r.target))

\* C1 happens: a Component's unit variant is viewed by reffed and reads "/".
C1_Witness ==
    \E r \in refs :
        /\ ~r.mut
        /\ store[r.val].ty = "Component"
        /\ store[r.val].tag = "RootDir"
        /\ Content(r.place) = <<47>>

\* C2: a write made through the reference ref_muted::<U>() returned is seen
\* in the original value afterwards: the bytes the declared conversion
\* designates hold the transform of what they held, the length is unchanged,
\* and vec![104, 105] made upper case through ref_muted::<[u8]>() holds "HI".
C2_MutationVisible ==
    wrote.f # "none" =>
        LET d == as_mut(wrote.val, wrote.target)
        IN  /\ Len(store[wrote.val].data) = Len(wrote.before)
            /\ Content(d) =
                 Apply(wrote.f, SubSeq(wrote.before, d.lo, d.lo + d.len - 1))
            /\ ( /\ store[wrote.val].ty = "Vec_u8"
                 /\ wrote.target = "slice_u8"
                 /\ wrote.before = <<104, 105>>
                 /\ wrote.f = "make_ascii_uppercase"
                 => store[wrote.val].data = <<72, 73>> )

\* C2 happens: the buffer [104, 105] was made upper case and holds "HI".
C2_Witness ==
    /\ wrote.f = "make_ascii_uppercase"
    /\ wrote.target = "slice_u8"
    /\ wrote.before = <<104, 105>>
    /\ store[wrote.val].ty = "Vec_u8"
    /\ store[wrote.val].data = <<72, 73>>

\* C3: a text viewed as a Path by reffed::<Path>() and rendered by
\* display().to_string() is the original text, for every text.
C3_PathDisplayRoundTrip ==
    \A r \in refs :
        (~r.mut /\ r.target = "Path" /\ store[r.val].ty = "str")
            => display_to_string(Content(r.place)) = store[r.val].data

\* C3 happens: "/some/sort/of/path" is viewed as a Path and renders as itself.
C3_Witness ==
    \E r \in refs :
        /\ ~r.mut
        /\ r.target = "Path"
        /\ store[r.val].ty = "str"
        /\ store[r.val].data = DocPath
        /\ display_to_string(Content(r.place)) = DocPath

C5_CallsChangeNothing ==
    [][ (\E self \in Vals, U \in Targets : Reffed(self, U) \/ RefMuted(self, U))
          => (store' = store /\ wrote' = wrote /\ refs \subseteq refs') ]_vars

\* C5 happens: both operations have returned a reference.
C5_Witness ==
    /\ \E r \in refs : r.mut
    /\ \E r \in refs : ~r.mut /\ store[r.val].data # <<>>

\* C6 as stated: every returned reference points into the storage of the
\* value it was made from.
C6_AlwaysInsideOriginal ==
    \A r \in refs : r.place.mem = r.val /\ ValidPlace(r.place)

\* C6 as amended: every returned reference designates exactly the place the
\* declared conversion designates; that is inside the original value, except
\* for a Component's unit variants, whose as_ref answers from a static.
C6_DesignatesDeclaredPlace ==
    \A r \in refs :
        /\ r.place = Declared(r)
        /\ ValidPlace(r.place)
        /\ r.place.mem # r.val =>
              /\ ~r.mut
              /\ store[r.val].ty = "Component"
              /\ store[r.val].tag \in StaticNames
              /\ r.place.mem = store[r.val].tag

\* C6 happens: a shared reference into a static and an exclusive one into
\* its value are live.
C6_Witness ==
    /\ \E r \in refs : ~r.mut /\ r.place.mem \in StaticNames
    /\ \E r \in refs : r.mut /\ r.place.mem = r.val /\ r.place.len > 0

\* Two places share a byte.
Overlap(p, q) ==
    /\ p.mem = q.mem
    /\ p.len > 0 /\ q.len > 0
    /\ p.lo < q.lo + q.len
    /\ q.lo < p.lo + p.len

\* C7: while an exclusive reference returned by ref_muted is live, no other
\* reference to the value or to overlapping bytes is live, and neither
\* reffed nor ref_muted can be called on the value.
C7_Exclusive ==
    \A r \in refs :
        r.mut =>
            /\ \A s \in refs \ {r} : s.val # r.val /\ ~Overlap(s.place, r.place)
            /\ \A U \in Targets :
                  /\ ~ENABLED Reffed(r.val, U)
                  /\ ~ENABLED RefMuted(r.val, U)

\* C7 happens: an exclusive reference is live beside a reference to the
\* other value.
C7_Witness ==
    \E r, s \in refs : r.mut /\ r.place.len > 0 /\ s.val # r.val

\* C8: every call in the domain completes with a reference to bytes that
\* exist; there is no other outcome.
C8_Total ==
    /\ \A r \in refs : ValidPlace(r.place)
    /\ \A self \in Vals, U \in Targets :
          /\ (reffed_bound(store[self].ty, U) /\ shared_borrow_ok(self))
                => ENABLED Reffed(self, U)
          /\ (ref_muted_bound(store[self].ty, U) /\ exclusive_borrow_ok(self))
                => ENABLED RefMuted(self, U)

\* C8 happens: calls on empty values returned references.
C8_Witness ==
    /\ \E r \in refs : ~r.mut /\ store[r.val].data = <<>>
    /\ \E r \in refs : r.mut

\* No reference to the value is live.
Unborrowed(self) == \A r \in refs : r.val # self

\* C9: reffed::<U>() can be called exactly when the type declares AsRef<U>,
\* ref_muted::<U>() exactly when it declares AsMut<U>, each whatever the
\* other direction declares; no reference exists for an undeclared pair.
C9_DirectionsIndependent ==
    /\ \A self \in Vals, U \in Targets :
          Unborrowed(self) =>
              /\ ENABLED Reffed(self, U) <=> <<store[self].ty, U>> \in AsRefImpls
              /\ ENABLED RefMuted(self, U) <=> <<store[self].ty, U>> \in AsMutImpls
    /\ \A r \in refs :
          IF r.mut THEN <<store[r.val].ty, r.target>> \in AsMutImpls
          ELSE <<store[r.val].ty, r.target>> \in AsRefImpls

\* C9 happens: a text is viewed as bytes, which it declares for shared
\* references only, while a Sink, which declares AsMut only, is borrowed
\* exclusively.
C9_Witness ==
    /\ \E r \in refs :
          /\ ~r.mut
          /\ <<store[r.val].ty, r.target>> \notin AsMutImpls
    /\ \E r \in refs :
          /\ r.mut
          /\ <<store[r.val].ty, r.target>> \notin AsRefImpls

\* C10: the exclusive reference v.ref_muted::<U>() returned designates the
\* place, with the content, that v.as_mut() designates.
C10_RefMutedIsAsMut ==
    \A r \in refs :
        r.mut =>
            /\ r.place = as_mut(r.val, r.target)
            /\ Content(r.place) = Content(as_mut(r.val, r.target))

\* C10 happens: a buffer that is not empty is borrowed through ref_muted.
C10_Witness ==
    \E r \in refs :
        /\ r.mut
        /\ store[r.val].ty = "Vec_u8"
        /\ r.target = "slice_u8"
        /\ r.place.len > 0

====
